---- MODULE Spec2Model ----
(***************************************************************************)
(* Model of plugins/shortplaylets/__init__.py: the Shortplaysitescraper    *)
(* plugin.  The plugin object (its configuration fields and its internal   *)
(* scheduler), the host calls init_plugin / stop_service / get_service,    *)
(* the three triggers that start scrape_media, and scrape_media itself     *)
(* as a sequence of steps per running pass.                                *)
(* The names threading and BackgroundScheduler, which the file uses but    *)
(* does not import, are taken to resolve to the standard library's and     *)
(* APScheduler's.                                                          *)
(***************************************************************************)
EXTENDS Integers, Sequences, FiniteSets, TLC

\* ------------------------------------------------------------------ bounds
MaxInits == 2     \* init_plugin calls made by the host
MaxPasses == 2    \* passes (executions of scrape_media) started in total

Passes == 1..MaxPasses

\* ------------------------------------------------------------ strings
\* A Python str is a tuple of one-character strings.
NL == "\n"
SP == " "
COMMA == ","

RECURSIVE split(_, _)
\* str.split(sep) for a one-character separator: always at least one piece,
\* empty pieces are kept ("a,".split(",") == ["a", ""]).
split(s, sep) ==
    IF \A i \in 1..Len(s) : s[i] # sep
    THEN <<s>>
    ELSE LET i == CHOOSE k \in 1..Len(s) :
                     s[k] = sep /\ \A j \in 1..(k - 1) : s[j] # sep
         IN  <<SubSeq(s, 1, i - 1)>> \o split(SubSeq(s, i + 1, Len(s)), sep)

RECURSIVE strip(_)
\* str.strip(): leading and trailing whitespace removed.
strip(s) ==
    IF s = <<>> THEN s
    ELSE IF s[1] \in {SP, NL} THEN strip(Tail(s))
    ELSE IF s[Len(s)] \in {SP, NL} THEN strip(SubSeq(s, 1, Len(s) - 1))
    ELSE s

\* Python's  k in s  for two strings: substring test, case-sensitive; the
\* empty string is a substring of every string.
contains(s, k) ==
    \E i \in 0..(Len(s) - Len(k)) : SubSeq(s, i + 1, i + Len(k)) = k

\* Python's any(...) over a list.
any(f) == \E i \in 1..Len(f) : f[i]

\* [x for x in l if p(x)]
RECURSIVE SelectNonEmpty(_)
SelectNonEmpty(l) ==
    IF l = <<>> THEN <<>>
    ELSE IF Head(l) # <<>> THEN <<Head(l)>> \o SelectNonEmpty(Tail(l))
    ELSE SelectNonEmpty(Tail(l))

\* line 111: [d.strip() for d in self._monitor_dirs.split("\n") if d.strip()]
parse_monitor_dirs(md) ==
    LET lines == split(md, NL)
    IN  SelectNonEmpty([i \in 1..Len(lines) |-> strip(lines[i])])

\* The exclusion test with the directory name compared to the keywords
\* instead of searched for them.
excluded_exact(exclude_kw, dir_name) ==
    /\ exclude_kw # <<>>
    /\ LET kws == split(exclude_kw, COMMA)
       IN  any([i \in 1..Len(kws) |-> dir_name = kws[i]])

\* line 123: the exclusion test on one directory name
excluded(exclude_kw, dir_name) ==
    /\ exclude_kw # <<>>
    /\ LET kws == split(exclude_kw, COMMA)
       IN  any([i \in 1..Len(kws) |-> contains(dir_name, kws[i])])

\* ------------------------------------------------- the world around
\* The host's site registry, as SiteOper().list_order_by_pri() returns it
\* (line 105): site 2 has no stored cookie, no site has id 9.
all_sites ==
    << [id |-> 1, name |-> "s1", cookie |-> "ck1"],
       [id |-> 2, name |-> "s2", cookie |-> ""],
       [id |-> 3, name |-> "s3", cookie |-> "ck3"] >>

\* The monitored file system.  Root A holds a plain file and two title
\* directories, root U exists but cannot be listed, any other path does
\* not exist.
RootA == <<"A">>
RootU == <<"U">>
path_exists(root) == root \in {RootA, RootU}
readable(root) == root = RootA
listdir(root) ==
    IF root = RootA
    THEN << [name |-> <<"f">>, isdir |-> FALSE],
            [name |-> <<"a">>, isdir |-> TRUE],
            [name |-> <<"b", "x">>, isdir |-> TRUE] >>
    ELSE <<>>
DirA == <<RootA, <<"a">>>>
DirBX == <<RootA, <<"b", "x">>>>
Dirs == {DirA, DirBX}

\* movie.nfo of one directory: absent, complete, or left behind truncated
\* by a write that failed half way.
NoNfo == [exists |-> FALSE, complete |-> FALSE, title |-> <<>>, plot |-> ""]
PtNfo == [exists |-> TRUE, complete |-> TRUE, title |-> <<>>, plot |-> "pt"]

\* The sidecars found at the start: none, or one that came with the
\* download in the first title directory.
InitialNfo == { f \in [Dirs -> {NoNfo, PtNfo}] : f[DirBX] = NoNfo }

\* ------------------------------------------------------- configuration
MonitorDirsChoices ==
    { <<>>, <<"Z", NL, SP, "A">>, <<"U", NL, "A">>, <<SP, NL>> }
SitesChoices ==
    { <<>>, <<"2", "1", "9", "3">>, <<"1", "x">> }
ExcludeChoices ==
    { <<>>, <<"x">>, <<"X">>, <<"q", COMMA>> }
CronChoices == { "", "1", "x" }

\* What the host passes to init_plugin in the lifecycle specification.
Configs ==
    [ enabled : BOOLEAN, onlyonce : BOOLEAN, cron : CronChoices,
      monitor_dirs : { <<>>, <<"A">> }, sites : { <<"2", "1">> },
      exclude_keywords : { <<"x">> } ]
NoConfig ==
    [ enabled |-> FALSE, onlyonce |-> FALSE, cron |-> "none",
      monitor_dirs |-> <<>>, sites |-> <<>>, exclude_keywords |-> <<>> ]

\* int(s) of line 88, 137 and 370: defined on decimal strings only.
is_int(s) == s \in {"1", "2", "3", "9"}
int(s) == CASE s = "1" -> 1 [] s = "2" -> 2 [] s = "3" -> 3 [] s = "9" -> 9

\* ---------------------------------------------------------------- state
VARIABLES
    active, monitor_dirs, cron, onlyonce, sites, exclude_keywords,
    scheduler,      \* self._scheduler
    leaked,         \* started schedulers the plugin dropped without shutting them down
    saved_config,   \* what update_config persisted last
    services,       \* what the host registered from get_service
    main,           \* where the host's calling thread is
    inits,          \* init_plugin calls so far
    nfo,            \* directory -> its movie.nfo
    passes,         \* passes started so far
    th,             \* pass -> its position and local variables
    log             \* pass -> what it has done (history)

plugin == <<active, monitor_dirs, cron, onlyonce, sites, exclude_keywords>>
vars == <<active, monitor_dirs, cron, onlyonce, sites, exclude_keywords,
          scheduler, leaked, saved_config, services, main, inits, nfo, passes, th, log>>

NoScheduler == [exists |-> FALSE, running |-> FALSE, jobs |-> 0]
NoMeta == [present |-> FALSE, title |-> <<>>, plot |-> ""]

Unborn ==
    [ pc |-> "unborn", kind |-> "none", roots |-> <<>>, ri |-> 0, ei |-> 0,
      site_ids |-> <<>>, si |-> 0, meta |-> NoMeta, success |-> FALSE,
      err |-> "" ]
EmptyLog ==
    [ nfo_at_start |-> {}, seen_nfo |-> {}, registry_reads |-> 0, listings |-> 0,
      exam_nfo |-> FALSE, since_exam |-> 0, last_outcome |-> "",
      entered |-> [d \in Dirs |-> 0],
      queried |-> [d \in Dirs |-> <<>>],
      saves |-> [d \in Dirs |-> <<>>],
      written |-> [d \in Dirs |-> 0],
      notified |-> [d \in Dirs |-> 0],
      failed |-> [d \in Dirs |-> 0],
      state |-> [d \in Dirs |-> "none"] ]

running(p) == th[p].pc \notin {"unborn", "returned", "raised"}
running_kind(k) == \E p \in Passes : running(p) /\ th[p].kind = k

\* The plugin object as the class body declares it (lines 39-48).
Init ==
    /\ active = FALSE /\ monitor_dirs = <<>> /\ cron = "" /\ onlyonce = FALSE
    /\ sites = <<>> /\ exclude_keywords = <<>>
    /\ scheduler = NoScheduler
    /\ leaked = 0
    /\ saved_config = NoConfig
    /\ services = 0
    /\ main = "idle"
    /\ inits = 0
    /\ nfo \in InitialNfo
    /\ passes = 0
    /\ th = [p \in Passes |-> Unborn]
    /\ log = [p \in Passes |-> EmptyLog]

\* ------------------------------------------------------ host-side calls
\* threading.Thread(target=self.scrape_media).start(), a firing interval
\* job, a firing host service: a new pass, not yet at its first statement.
spawn(kind) ==
    /\ passes < MaxPasses
    /\ passes' = passes + 1
    /\ th' = [th EXCEPT ![passes + 1] = [Unborn EXCEPT !.pc = "begin", !.kind = kind]]
    /\ log' = [log EXCEPT ![passes + 1] = EmptyLog]

\* stop_service, lines 380-381: the jobs are removed at once.
remove_all_jobs(sch) == IF sch.exists THEN [sch EXCEPT !.jobs = 0] ELSE sch

\* stop_service, lines 382-384: shutdown() waits for a job that is
\* executing, so it returns only when no interval-job pass is running.
shutdown_returns == (scheduler.exists /\ scheduler.running) => ~running_kind("job")

\* init_plugin, lines 51-60: take the configuration over (None or an empty
\* dict leaves the fields alone), then enter stop_service.
init_plugin_call(has_config, config) ==
    /\ main = "idle"
    /\ inits < MaxInits
    /\ (IF has_config THEN config.onlyonce ELSE onlyonce) => passes < MaxPasses
    /\ inits' = inits + 1
    /\ IF has_config
       THEN /\ active' = config.enabled
            /\ monitor_dirs' = config.monitor_dirs
            /\ cron' = config.cron
            /\ onlyonce' = config.onlyonce
            /\ sites' = config.sites
            /\ exclude_keywords' = config.exclude_keywords
       ELSE UNCHANGED plugin
    /\ scheduler' = remove_all_jobs(scheduler)
    /\ main' = "init_plugin"
    /\ UNCHANGED <<leaked, saved_config, services, nfo, passes, th, log>>

\* lines 83-94: the interval job; int() of a non-numeric interval raises
\* inside the try and leaves a scheduler that was never started.
add_interval_job(sch, interval) ==
    IF interval = "" THEN sch
    ELSE IF is_int(interval) THEN [sch EXCEPT !.jobs = 1, !.running = TRUE]
    ELSE sch

\* The scheduler init_plugin leaves behind (lines 63-65, 83-94).
new_scheduler(enabled, once, interval) ==
    IF enabled \/ once
    THEN add_interval_job([exists |-> TRUE, running |-> FALSE, jobs |-> 0], interval)
    ELSE NoScheduler

\* stop_service leaving self._scheduler as it found it.
stopped_left(sch) == sch

\* stop_service, lines 382-384: self._scheduler after the shutdown.
stopped(sch) == NoScheduler

\* Line 65 overwrites self._scheduler: a scheduler that is still running
\* then goes on without an owner.
orphaned(sch) == IF sch.exists /\ sch.running THEN 1 ELSE 0

\* update_config with the run-now flag as it was passed in.
persisted_flag(enabled, interval, dirs, site_ids, keywords) ==
    [ enabled |-> enabled, onlyonce |-> TRUE, cron |-> interval,
      monitor_dirs |-> dirs, sites |-> site_ids, exclude_keywords |-> keywords ]

\* lines 71-78: what update_config persists
persisted(enabled, interval, dirs, site_ids, keywords) ==
    [ enabled |-> enabled, onlyonce |-> FALSE, cron |-> interval,
      monitor_dirs |-> dirs, sites |-> site_ids, exclude_keywords |-> keywords ]

\* init_plugin, the rest of stop_service and lines 62-94.
init_plugin_finish ==
    /\ main = "init_plugin"
    /\ shutdown_returns
    /\ main' = "idle"
    /\ IF active \/ onlyonce
       THEN /\ scheduler' = new_scheduler(active, onlyonce, cron)
            /\ leaked' = leaked + orphaned(stopped(scheduler))
       ELSE /\ scheduler' = stopped(scheduler)
            /\ UNCHANGED leaked
    /\ IF onlyonce
       THEN /\ onlyonce' = FALSE
            /\ saved_config' =
                 persisted(active, cron, monitor_dirs, sites, exclude_keywords)
            /\ spawn("manual")
       ELSE UNCHANGED <<onlyonce, saved_config, passes, th, log>>
    /\ UNCHANGED <<active, monitor_dirs, cron, sites, exclude_keywords,
                   services, inits, nfo>>

\* stop_service called by the host (lines 375-394).
stop_service_call ==
    /\ main = "idle"
    /\ scheduler.exists
    /\ scheduler' = remove_all_jobs(scheduler)
    /\ main' = "stop_service"
    /\ UNCHANGED <<plugin, leaked, saved_config, services, inits, nfo, passes, th, log>>

stop_service_finish ==
    /\ main = "stop_service"
    /\ shutdown_returns
    /\ scheduler' = stopped(scheduler)
    /\ main' = "idle"
    /\ UNCHANGED <<plugin, leaked, saved_config, services, inits, nfo, passes, th, log>>

\* get_service (lines 361-373): what the host registers from its answer;
\* int() of a non-numeric interval raises and nothing is registered.
service_list(enabled, interval) ==
    IF enabled /\ interval # "" /\ is_int(interval) THEN 1 ELSE 0

get_service ==
    /\ main = "idle"
    /\ services' = service_list(active, cron)
    /\ services' # services
    /\ UNCHANGED <<plugin, scheduler, leaked, saved_config, main, inits, nfo, passes, th, log>>

\* --------------------------------------------------------- the triggers
\* The plugin's own interval job fires (one instance at a time).
job_fire ==
    /\ scheduler.exists /\ scheduler.running /\ scheduler.jobs > 0
    /\ ~running_kind("job")
    /\ spawn("job")
    /\ UNCHANGED <<plugin, scheduler, leaked, saved_config, services, main, inits, nfo>>

\* The service the host registered fires (one instance at a time).
service_fire ==
    /\ services > 0
    /\ ~running_kind("service")
    /\ spawn("service")
    /\ UNCHANGED <<plugin, scheduler, leaked, saved_config, services, main, inits, nfo>>

\* ------------------------------------------------------- scrape_media
\* line 137: next((s for s in all_sites if s.id == int(site_id)), None);
\* index of the site in the registry, 0 for None.
find_site(registry, site_id) ==
    IF \E i \in 1..Len(registry) : registry[i].id = int(site_id)
    THEN CHOOSE i \in 1..Len(registry) :
             /\ registry[i].id = int(site_id)
             /\ \A j \in 1..(i - 1) : registry[j].id # int(site_id)
    ELSE 0

\* The test of line 138 without its cookie half.
no_credential_missing_only(registry, site_id) ==
    find_site(registry, site_id) = 0

\* line 138: the sites that are skipped without a request.
no_credential(registry, site_id) ==
    \/ find_site(registry, site_id) = 0
    \/ registry[find_site(registry, site_id)].cookie = ""

\* What one request to a site can come to: no response object, an exception
\* from the transport or the parser, a page without a matching anchor, a
\* page with one.
SearchOutcomes == {"no_response", "error", "no_match", "match"}

\* _search_site without the try/except around the request and the parser.
search_site_raising(site, keyword, outcome) ==
    IF outcome = "match"
    THEN [raised |-> FALSE,
          meta |-> [present |-> TRUE, title |-> keyword, plot |-> site.name]]
    ELSE [raised |-> outcome = "error", meta |-> NoMeta]

\* _search_site (lines 158-193): the result and whether it raised.
search_site(site, keyword, outcome) ==
    IF outcome = "match"
    THEN [raised |-> FALSE,
          meta |-> [present |-> TRUE, title |-> keyword, plot |-> site.name]]
    ELSE [raised |-> FALSE, meta |-> NoMeta]

\* What writing movie.nfo can come to: written, refused before the file is
\* opened (permissions, path vanished), failed after it was opened (disk
\* full, which leaves a truncated file).
WriteOutcomes == {"ok", "denied", "disk_full"}

\* _save_files (lines 195-206): the file afterwards and whether it raised.
save_files(old, title, meta, outcome) ==
    CASE outcome = "ok" ->
           [raised |-> FALSE,
            file |-> [exists |-> TRUE, complete |-> TRUE,
                      title |-> meta.title, plot |-> meta.plot]]
      [] outcome = "denied" -> [raised |-> TRUE, file |-> old]
      [] outcome = "disk_full" ->
           [raised |-> TRUE,
            file |-> [exists |-> TRUE, complete |-> FALSE, title |-> <<>>, plot |-> ""]]

\* The test of line 130 looking at a path that never exists.
has_sidecar_never(file) == FALSE

\* line 130: os.path.exists(nfo_path)
has_sidecar(file) == file.exists

\* The branch of lines 148-156 with the success branch always taken.
report_outcome_always(success) == "Resolved"

\* lines 148-156: the branch taken after the loop over the sites
report_outcome(success) == IF success THEN "Resolved" ELSE "Unresolved"

raise(t, where) == [t EXCEPT !.pc = "raised", !.err = where]

scrape_unchanged ==
    UNCHANGED <<plugin, scheduler, leaked, saved_config, services, main, inits, passes>>

RECURSIVE next_candidate(_, _, _, _)
\* lines 112-120, the two for loops up to the next entry that is a
\* directory: roots that do not exist are passed over, os.listdir of an
\* unreadable root raises, entries that are no directories are passed over.
\* ei = 0 stands for a root that is not listed yet; n counts the listings.
\* These statements read only the pass's own variables and the directory
\* tree, so they are taken together with the step before them.
next_candidate(roots, ri, ei, n) ==
    IF ri > Len(roots) THEN [kind |-> "end", ri |-> ri, ei |-> ei, listings |-> n]
    ELSE IF ei = 0
    THEN IF ~path_exists(roots[ri]) THEN next_candidate(roots, ri + 1, 0, n)
         ELSE IF ~readable(roots[ri])
         THEN [kind |-> "raise", ri |-> ri, ei |-> ei, listings |-> n]
         ELSE next_candidate(roots, ri, 1, n + 1)
    ELSE IF ei > Len(listdir(roots[ri])) THEN next_candidate(roots, ri + 1, 0, n)
    ELSE IF ~listdir(roots[ri])[ei].isdir THEN next_candidate(roots, ri, ei + 1, n)
    ELSE [kind |-> "dir", ri |-> ri, ei |-> ei, listings |-> n]

\* The pass after moving on to where next_candidate stopped.
move_to(t, c) ==
    CASE c.kind = "dir" -> [t EXCEPT !.pc = "entry", !.ri = c.ri, !.ei = c.ei]
      [] c.kind = "end" -> [t EXCEPT !.pc = "returned", !.ri = c.ri, !.ei = c.ei]
      [] c.kind = "raise" -> [raise(t, "listdir") EXCEPT !.ri = c.ri, !.ei = c.ei]

RECURSIVE next_site(_, _, _)
\* lines 136-139, the loop over the configured sites up to the next site
\* that is asked: int() of a non-numeric id raises, a site that is not in
\* the registry or has no cookie is passed over.
next_site(registry, site_ids, si) ==
    IF si > Len(site_ids) THEN [kind |-> "end", si |-> si]
    ELSE IF ~is_int(site_ids[si]) THEN [kind |-> "raise", si |-> si]
    ELSE IF no_credential(registry, site_ids[si]) THEN next_site(registry, site_ids, si + 1)
    ELSE [kind |-> "query", si |-> si]

\* The pass after moving on to where next_site stopped.
turn_to(t, s) ==
    CASE s.kind = "query" -> [t EXCEPT !.pc = "sites", !.si = s.si]
      [] s.kind = "end" -> [t EXCEPT !.pc = "report", !.si = s.si]
      [] s.kind = "raise" -> [raise(t, "int") EXCEPT !.si = s.si]

\* Lines 145-146 without the break: the loop goes on to the next site.
after_write_no_break(t) ==
    turn_to([t EXCEPT !.success = TRUE], next_site(all_sites, t.site_ids, t.si + 1))

\* lines 145-146: success = True; break
after_write(t) == [t EXCEPT !.pc = "report", !.success = TRUE]

cur_root(p) == th[p].roots[th[p].ri]
cur_entry(p) == listdir(cur_root(p))[th[p].ei]
cur_dir(p) == <<cur_root(p), cur_entry(p).name>>

\* lines 100-120: the guard on the monitored directories, the registry
\* read, and on to the first candidate directory
begin(p) ==
    /\ th[p].pc = "begin"
    /\ IF monitor_dirs = <<>>
       THEN /\ th' = [th EXCEPT ![p].pc = "returned"]
            /\ UNCHANGED log
       ELSE LET roots == parse_monitor_dirs(monitor_dirs)
                c == next_candidate(roots, 1, 0, 0)
            IN  /\ th' = [th EXCEPT ![p] = move_to([@ EXCEPT !.roots = roots], c)]
                /\ log' = [log EXCEPT ![p].registry_reads = @ + 1,
                                      ![p].listings = @ + c.listings,
                                      ![p].nfo_at_start = {d \in Dirs : nfo[d].exists}]
    /\ UNCHANGED nfo
    /\ scrape_unchanged

\* lines 122-139: the skip tests on one candidate directory; a skipped
\* candidate leads on to the next one, any other into the loop over the
\* configured sites
examine(p) ==
    /\ th[p].pc = "entry"
    /\ LET d == cur_dir(p)
           c == next_candidate(th[p].roots, th[p].ri, th[p].ei + 1, 0)
           seen == [log EXCEPT ![p].exam_nfo = nfo[d].exists,
                               ![p].since_exam = 0,
                               ![p].last_outcome = "",
                               ![p].listings = @ + c.listings]
       IN  IF excluded(exclude_keywords, cur_entry(p).name)
           THEN /\ th' = [th EXCEPT ![p] = move_to(@, c)]
                /\ log' = [seen EXCEPT ![p].state[d] = "Skipped"]
           ELSE IF has_sidecar(nfo[d])
           THEN /\ th' = [th EXCEPT ![p] = move_to(@, c)]
                /\ log' = [seen EXCEPT ![p].state[d] = "Skipped",
                                       ![p].seen_nfo = @ \cup {d}]
           ELSE /\ th' = [th EXCEPT ![p] =
                            turn_to([@ EXCEPT !.success = FALSE, !.site_ids = sites,
                                              !.meta = NoMeta],
                                    next_site(all_sites, sites, 1))]
                /\ log' = [log EXCEPT ![p].exam_nfo = nfo[d].exists,
                                      ![p].since_exam = 0,
                                      ![p].last_outcome = "",
                                      ![p].entered[d] = @ + 1]
    /\ UNCHANGED nfo
    /\ scrape_unchanged

\* lines 141-143 and back to 136-139: one site is asked; without a result
\* the loop goes on to the next site that is asked
try_site(p) ==
    /\ th[p].pc = "sites"
    /\ \E outcome \in SearchOutcomes :
         LET site == all_sites[find_site(all_sites, th[p].site_ids[th[p].si])]
             res == search_site(site, cur_entry(p).name, outcome)
         IN  /\ log' = [log EXCEPT
                          ![p].queried[cur_dir(p)] =
                              Append(@, [site |-> site.id, found |-> res.meta.present]),
                          ![p].last_outcome = outcome,
                          ![p].since_exam = @ + 1]
             /\ th' = IF res.raised
                      THEN [th EXCEPT ![p] = raise(@, "search_site")]
                      ELSE IF res.meta.present
                      THEN [th EXCEPT ![p].pc = "save", ![p].meta = res.meta]
                      ELSE [th EXCEPT ![p] =
                              turn_to(@, next_site(all_sites, th[p].site_ids, th[p].si + 1))]
    /\ UNCHANGED nfo
    /\ scrape_unchanged

\* lines 144-146: the sidecar is written
save(p) ==
    /\ th[p].pc = "save"
    /\ \E outcome \in WriteOutcomes :
         LET res == save_files(nfo[cur_dir(p)], cur_entry(p).name, th[p].meta, outcome)
         IN  /\ nfo' = [nfo EXCEPT ![cur_dir(p)] = res.file]
             /\ log' = [log EXCEPT ![p].saves[cur_dir(p)] = Append(@, th[p].meta.plot),
                                   ![p].written[cur_dir(p)] =
                                       IF res.raised THEN @ ELSE @ + 1,
                                   ![p].since_exam = @ + 1]
             /\ th' = IF res.raised
                      THEN [th EXCEPT ![p] = raise(@, "save_files")]
                      ELSE [th EXCEPT ![p] = after_write(@)]
    /\ scrape_unchanged

\* lines 148-156: the outcome of the candidate, and on to the next one
report(p) ==
    /\ th[p].pc = "report"
    /\ LET d == cur_dir(p)
           c == next_candidate(th[p].roots, th[p].ri, th[p].ei + 1, 0)
           out == report_outcome(th[p].success)
       IN  /\ log' = [log EXCEPT
                        ![p].notified[d] = IF out = "Resolved" THEN @ + 1 ELSE @,
                        ![p].failed[d] = IF out = "Resolved" THEN @ ELSE @ + 1,
                        ![p].state[d] = out,
                        ![p].last_outcome = "",
                        ![p].listings = @ + c.listings]
           /\ th' = [th EXCEPT ![p] = move_to(@, c)]
    /\ UNCHANGED nfo
    /\ scrape_unchanged

scrape_media(p) ==
    \/ begin(p)
    \/ examine(p)
    \/ try_site(p)
    \/ save(p)
    \/ report(p)

\* ------------------------------------------------------ specifications
Next ==
    \/ \E config \in Configs : init_plugin_call(TRUE, config)
    \/ init_plugin_call(FALSE, NoConfig)
    \/ init_plugin_finish
    \/ stop_service_call
    \/ stop_service_finish
    \/ get_service
    \/ job_fire
    \/ service_fire
    \/ \E p \in Passes : scrape_media(p)

Spec == Init /\ [][Next]_vars

\* The plugin as init_plugin and get_service leave it for an enabled
\* configuration with an interval, any monitored roots, site list and
\* exclusion keywords; from there on only the two interval triggers act.
InitScrape ==
    /\ active = TRUE /\ onlyonce = FALSE /\ cron = "1"
    /\ monitor_dirs \in MonitorDirsChoices
    /\ sites \in SitesChoices
    /\ exclude_keywords \in ExcludeChoices
    /\ scheduler = new_scheduler(TRUE, FALSE, "1")
    /\ leaked = 0
    /\ services = service_list(TRUE, "1")
    /\ saved_config = NoConfig
    /\ main = "idle"
    /\ inits = 1
    /\ nfo \in InitialNfo
    /\ passes = 0
    /\ th = [p \in Passes |-> Unborn]
    /\ log = [p \in Passes |-> EmptyLog]

NextScrape ==
    \/ job_fire
    \/ service_fire
    \/ \E p \in Passes : scrape_media(p)

SpecScrape == InitScrape /\ [][NextScrape]_vars

\* The host's calls and the triggers with no monitored directory
\* configured: every pass returns at line 102.
HostConfigs == { c \in Configs : c.monitor_dirs = <<>> }

NextHost ==
    \/ \E config \in HostConfigs : init_plugin_call(TRUE, config)
    \/ init_plugin_call(FALSE, NoConfig)
    \/ init_plugin_finish
    \/ stop_service_call
    \/ stop_service_finish
    \/ get_service
    \/ job_fire
    \/ service_fire
    \/ \E p \in Passes : begin(p)

SpecHost == Init /\ [][NextHost]_vars

\* ------------------------------------------------------------ properties
\* Vocabulary of the properties, stated on the configuration and the
\* registry directly.
NameOf(d) == d[2]

\* The non-empty keywords of a comma-separated list: its maximal runs
\* without a comma.
Keywords(s) ==
    { SubSeq(s, i, j) : <<i, j>> \in
        { ij \in (1..Len(s)) \X (1..Len(s)) :
            /\ ij[1] <= ij[2]
            /\ \A k \in ij[1]..ij[2] : s[k] # COMMA
            /\ (ij[1] = 1 \/ s[ij[1] - 1] = COMMA)
            /\ (ij[2] = Len(s) \/ s[ij[2] + 1] = COMMA) } }

Occurs(k, name) ==
    \E off \in 0..(Len(name) - Len(k)) : \A i \in 1..Len(k) : name[off + i] = k[i]

HasKeyword(d) == \E k \in Keywords(exclude_keywords) : Occurs(k, NameOf(d))

IdStr(n) == CASE n = 1 -> "1" [] n = 2 -> "2" [] n = 3 -> "3"
SiteName(n) == CHOOSE nm \in {"s1", "s2", "s3"} :
                   \E i \in 1..Len(all_sites) : all_sites[i].id = n /\ all_sites[i].name = nm

\* The site of this configured id is in the registry with a cookie.
HasCookie(idstr) ==
    \E i \in 1..Len(all_sites) :
        IdStr(all_sites[i].id) = idstr /\ all_sites[i].cookie # ""

RECURSIVE NumericPrefix(_)
NumericPrefix(ids) ==
    IF ids = <<>> \/ Head(ids) \notin {"1", "2", "3", "9"} THEN <<>>
    ELSE <<Head(ids)>> \o NumericPrefix(Tail(ids))

\* The configured sites that are asked when none answers, in order.
Asked(ids) == SelectSeq(NumericPrefix(ids), HasCookie)

AskedIds(q) == [i \in 1..Len(q) |-> IdStr(q[i].site)]
IsPrefix(a, b) == Len(a) <= Len(b) /\ SubSeq(b, 1, Len(a)) = a
NoResult(q) == \A i \in 1..Len(q) : ~q[i].found
AtCandidate(p) == th[p].pc \in {"sites", "save", "report"}

\* C1: a candidate that holds movie.nfo when the pass examines it gets no
\* lookup and no write from that examination on, and a pass that starts
\* after the sidecar of a candidate exists makes no lookup and no write
\* for that candidate at all.
C1_ScrapedUntouched ==
    \A p \in Passes :
        /\ log[p].exam_nfo => log[p].since_exam = 0
        /\ \A d \in log[p].nfo_at_start :
               /\ log[p].queried[d] = <<>>
               /\ log[p].saves[d] = <<>>
               /\ log[p].entered[d] = 0

\* A pass wrote the sidecar of a candidate, and a pass that began when the
\* sidecar was there has gone through the candidate and returned.
C1_Witness ==
    \E p, q \in Passes : \E d \in Dirs :
        /\ p # q
        /\ log[q].written[d] = 1
        /\ d \in log[p].nfo_at_start
        /\ d \in log[p].seen_nfo
        /\ th[p].pc = "returned"

\* C2: a candidate whose directory name contains a configured exclusion
\* keyword is skipped by every pass: no lookup, no write, whatever the
\* sites would answer.
C2_ExcludedUntouched ==
    \A p \in Passes : \A d \in Dirs :
        HasKeyword(d) =>
            /\ log[p].queried[d] = <<>>
            /\ log[p].saves[d] = <<>>
            /\ log[p].entered[d] = 0
            /\ log[p].state[d] \in {"none", "Skipped"}

\* A pass with credentialed sites configured has skipped the directory
\* "bx" for the keyword "x" and returned; the directory has no sidecar.
C2_Witness ==
    \E p \in Passes :
        /\ HasKeyword(DirBX)
        /\ Asked(sites) # <<>>
        /\ log[p].state[DirBX] = "Skipped"
        /\ ~nfo[DirBX].exists
        /\ th[p].pc = "returned"

\* C3: within one pass the sidecar of a candidate is written at most once,
\* from the record of the first configured site that answers with a
\* result; the sites are asked in the configured order and none is asked
\* after the one that answered.
C3_FirstResultWins ==
    \A p \in Passes : \A d \in Dirs :
        LET q == log[p].queried[d] IN
        /\ Len(log[p].saves[d]) <= 1
        /\ log[p].written[d] <= 1
        /\ \A i \in 1..Len(q) : q[i].found => i = Len(q)
        /\ IsPrefix(AskedIds(q), Asked(sites))
        /\ log[p].saves[d] # <<>> =>
               /\ q # <<>>
               /\ q[Len(q)].found
               /\ log[p].saves[d] = <<SiteName(q[Len(q)].site)>>
        /\ (nfo[d].complete /\ nfo[d].plot # "pt") =>
               /\ nfo[d].title = NameOf(d)
               /\ \E r \in Passes : log[r].saves[d] = <<nfo[d].plot>>

\* Site 1 answered first and its record was written, with site 3
\* configured after it and never asked.
C3_Witness ==
    \E p \in Passes : \E d \in Dirs :
        /\ sites = <<"2", "1", "9", "3">>
        /\ log[p].queried[d] = <<[site |-> 1, found |-> TRUE]>>
        /\ log[p].written[d] = 1
        /\ log[p].state[d] = "Resolved"
        /\ nfo[d].plot = "s1"

\* C4: a candidate that went through the loop over the sites without any
\* site answering with a result (also with no site configured) gets no
\* sidecar and no success message and ends the pass Unresolved.
C4_AllAbsentUnresolved ==
    \A p \in Passes : \A d \in Dirs :
        /\ (log[p].state[d] \in {"Resolved", "Unresolved"} /\ NoResult(log[p].queried[d])) =>
               /\ log[p].state[d] = "Unresolved"
               /\ log[p].saves[d] = <<>>
               /\ log[p].written[d] = 0
               /\ log[p].notified[d] = 0
               /\ log[p].failed[d] = 1
        /\ (th[p].pc = "report" /\ cur_dir(p) = d /\ NoResult(log[p].queried[d])) =>
               ~th[p].success

\* Both credentialed sites were asked, neither answered, the candidate is
\* Unresolved.
C4_Witness ==
    \E p \in Passes : \E d \in Dirs :
        /\ Len(log[p].queried[d]) = 2
        /\ NoResult(log[p].queried[d])
        /\ log[p].state[d] = "Unresolved"
        /\ ~nfo[d].exists

\* C5: a failing sidecar write does not raise out of _save_files into
\* scrape_media.
C5_WriteFailureContained ==
    \A p \in Passes : th[p].err # "save_files"

\* C6: _search_site never raises; after a lookup without a result (no
\* response, an exception, no matching anchor) the pass goes on to the next
\* configured site that is asked, or leaves the loop when there is none.
C6_LookupNeverRaises ==
    \A p \in Passes :
        /\ th[p].err # "search_site"
        /\ log[p].last_outcome \in {"no_response", "error", "no_match"} =>
               LET n == Len(log[p].queried[cur_dir(p)])
                   asked == Asked(th[p].site_ids)
               IN  /\ ~log[p].queried[cur_dir(p)][n].found
                   /\ IF n < Len(asked)
                      THEN /\ th[p].pc = "sites"
                           /\ th[p].site_ids[th[p].si] = asked[n + 1]
                      ELSE /\ th[p].pc \in {"report", "raised"}
                           /\ th[p].err \in {"", "int"}

\* The request to site 1 failed with an exception and the pass stands at
\* site 3 of the same candidate.
C6_Witness ==
    \E p \in Passes :
        /\ log[p].last_outcome = "error"
        /\ th[p].pc = "sites"
        /\ th[p].site_ids[th[p].si] = "3"
        /\ log[p].queried[cur_dir(p)] = <<[site |-> 1, found |-> FALSE]>>

\* C7: no exception leaves scrape_media: no pass ends by raising.
C7_NoExceptionEscapes ==
    \A p \in Passes : th[p].pc # "raised"

\* C8: at most one pass is running at any time.
C8_SinglePass ==
    Cardinality({p \in Passes : running(p)}) <= 1

\* C9: every candidate that entered the resolution step has exactly one
\* outcome once the pass is done with it, a success message follows a
\* written sidecar only, and a Skipped or Unresolved candidate has none.
C9_OneOutcomePerCandidate ==
    \A p \in Passes : \A d \in Dirs :
        /\ log[p].notified[d] <= log[p].written[d]
        /\ log[p].notified[d] > 0 => log[p].state[d] = "Resolved"
        /\ ~(AtCandidate(p) /\ cur_dir(p) = d) =>
               log[p].notified[d] + log[p].failed[d] = log[p].entered[d]

\* C10: a configured site without a cookie or without a registry entry is
\* never asked and raises nothing; the loop goes on, so an Unresolved
\* candidate had every credentialed site asked and a Resolved one carries
\* the record of the site that answered.
C10_NoCredentialSkipped ==
    \A p \in Passes :
        /\ \A d \in Dirs :
               LET q == log[p].queried[d] IN
               /\ \A i \in 1..Len(q) : HasCookie(IdStr(q[i].site))
               /\ log[p].state[d] = "Unresolved" => AskedIds(q) = Asked(sites)
               /\ log[p].state[d] = "Resolved" =>
                      /\ q # <<>>
                      /\ q[Len(q)].found
                      /\ log[p].saves[d] = <<SiteName(q[Len(q)].site)>>
        /\ th[p].pc = "sites" => HasCookie(th[p].site_ids[th[p].si])
        /\ th[p].err = "int" => th[p].site_ids[th[p].si] \notin {"1", "2", "3", "9"}

\* With sites 2 (no cookie), 1, 9 (not in the registry), 3 configured,
\* site 1 had no result and the candidate is Resolved with the record of
\* site 3.
C10_Witness ==
    \E p \in Passes : \E d \in Dirs :
        /\ sites = <<"2", "1", "9", "3">>
        /\ log[p].queried[d] = <<[site |-> 1, found |-> FALSE], [site |-> 3, found |-> TRUE]>>
        /\ log[p].state[d] = "Resolved"
        /\ nfo[d].plot = "s3"

\* No line of the monitored-directories setting names a directory.
NoRootsConfigured ==
    \A i \in 1..Len(monitor_dirs) : monitor_dirs[i] \in {SP, NL}

\* C11: with no monitored root configured a pass returns without having
\* read the registry, listed a directory, asked a site, written a sidecar
\* or sent a message, and without raising.
C11_NoRootsNoWork ==
    \A p \in Passes :
        (NoRootsConfigured /\ th[p].pc \notin {"unborn", "begin"}) =>
            /\ th[p].pc = "returned"
            /\ log[p].registry_reads = 0
            /\ log[p].listings = 0
            /\ \A d \in Dirs :
                   /\ log[p].queried[d] = <<>>
                   /\ log[p].saves[d] = <<>>
                   /\ log[p].notified[d] = 0

\* C12: after an init_plugin call that left the plugin disabled, the
\* plugin's scheduler holds no interval job.
C12_JobOnlyWhenEnabled ==
    (main = "idle" /\ ~active) => scheduler.jobs = 0

\* C13: a candidate is skipped by the exclusion filter only when its
\* directory name contains one of the non-empty configured keywords.
C13_SkippedOnlyForKeyword ==
    \A p \in Passes : \A d \in Dirs :
        (log[p].state[d] = "Skipped" /\ d \notin log[p].seen_nfo) => HasKeyword(d)

ManualPasses == { p \in Passes : th[p].kind = "manual" }

\* C14: init_plugin starts one manual pass exactly when the run-now flag
\* is set, no other step starts one; with the thread started the flag in
\* memory is false and the configuration is persisted with onlyonce false,
\* so a call made with the persisted configuration arrives with the flag
\* false and starts nothing.
C14_RunNowOneShot ==
    [][ LET finishing == main = "init_plugin" /\ main' = "idle"
        IN  /\ Cardinality(ManualPasses') =
                   Cardinality(ManualPasses) + (IF finishing /\ onlyonce THEN 1 ELSE 0)
            /\ (finishing /\ onlyonce) =>
                   /\ saved_config'.enabled = active
                   /\ saved_config'.cron = cron
                   /\ saved_config'.monitor_dirs = monitor_dirs
                   /\ saved_config'.sites = sites
                   /\ saved_config'.exclude_keywords = exclude_keywords
            /\ ~saved_config'.onlyonce
            /\ main' = "idle" => ~onlyonce'
      ]_vars

\* The run-now pass of the first call exists; the second call, made with
\* the persisted configuration, is under way with the flag false.
C14_Witness ==
    /\ inits = 2
    /\ main = "init_plugin"
    /\ Cardinality(ManualPasses) = 1
    /\ ~onlyonce
    /\ saved_config # NoConfig
    /\ <<active, cron, monitor_dirs, sites, exclude_keywords>> =
           <<saved_config.enabled, saved_config.cron, saved_config.monitor_dirs,
             saved_config.sites, saved_config.exclude_keywords>>

\* C15: the plugin never has more than one live scheduler (the one it
\* holds plus those it dropped while running) nor more than one job, and
\* when stop_service returns it holds no scheduler and no job.
C15_OneScheduler ==
    [][ /\ leaked' + (IF scheduler'.exists /\ scheduler'.running THEN 1 ELSE 0) <= 1
        /\ scheduler'.jobs <= 1
        /\ scheduler'.jobs > 0 => scheduler'.exists
        /\ (main = "stop_service" /\ main' = "idle") =>
               (~scheduler'.exists /\ scheduler'.jobs = 0)
      ]_vars

\* After two init_plugin calls, the second enabled with an interval (a
\* started scheduler with its job), stop_service has returned and nothing
\* is left.
C15_Witness ==
    /\ inits = 2
    /\ main = "idle"
    /\ active /\ cron = "1"
    /\ scheduler = NoScheduler
    /\ leaked = 0

\* C16: over all passes a candidate directory gets at most one sidecar
\* write and at most one success message.
C16_AtMostOneWrite ==
    \A d \in Dirs :
        /\ Cardinality({p \in Passes : log[p].written[d] > 0}) <= 1
        /\ Cardinality({p \in Passes : log[p].notified[d] > 0}) <= 1

====
